---- MODULE Spec2Model ----
(***************************************************************************)
(* Model of the collection filter of bgg-what-to-play:                     *)
(*   - the ratings range codec (ratingsService.ts),                        *)
(*   - the filter reducer and its URL synchronisation                      *)
(*     (useCollectionFilters.ts, PlayerCountSlider.tsx),                   *)
(*   - the filter / sort pipeline applyFiltersAndSorts.                    *)
(*                                                                         *)
(* Numbers that travel through the URL (ratings, complexity, playtime,     *)
(* player count) are fixed-point integers: the number x is the integer     *)
(* x * Scale.  Strings are sequences of one-character strings.             *)
(***************************************************************************)
EXTENDS Integers, Sequences, FiniteSets, TLC

VARIABLES
    filterState,    \* the CollectionFilterState held by useReducer
    url,            \* the query parameters of document.location
    loaded,         \* TRUE once initialFilterState has been evaluated
    historyLen,     \* number of entries pushed with history.pushState
    lastEvent,      \* the UI callback that ran last
    lastAction,     \* the action type dispatched last
    dispatchCount,  \* number of reducer runs so far
    payloadsInDomain, \* TRUE while every range payload dispatched so far
                    \* was inside its criterion's domain with min <= max
    games,          \* the collection handed to applyFiltersAndSorts
    output,         \* the list applyFiltersAndSorts returned
    applied         \* TRUE once applyFiltersAndSorts has run

vars == <<filterState, url, loaded, historyLen, lastEvent, lastAction,
          dispatchCount, payloadsInDomain, games, output, applied>>

----------------------------------------------------------------------------
(* Bounds *)

\* longest raw query parameter value that is decoded
MaxLen == 4
\* most reducer runs in one behaviour
MaxDispatch == 3
\* longest collection built from the small catalogue
MaxGames == 2

----------------------------------------------------------------------------
(* Numbers *)

RECURSIVE Pow10(_)
Pow10(n) == IF n <= 0 THEN 1 ELSE 10 * Pow10(n - 1)

\* a string of MaxLen characters has at most MaxLen - 1 fraction digits
FracDigits == MaxLen - 1
Scale == Pow10(FracDigits)

\* Number.POSITIVE_INFINITY: above every finite number of the model
POSITIVE_INFINITY == 1000000000
\* NaN: compares FALSE with everything (see Leq); never used in arithmetic
NaN == -1000000000

isNaN(x) == x = NaN

\* a <= b of two JavaScript numbers
Leq(a, b) == ~isNaN(a) /\ ~isNaN(b) /\ a <= b

Min2(a, b) == IF a <= b THEN a ELSE b
Max2(a, b) == IF a >= b THEN a ELSE b

\* lodash _.clamp(number, lower, upper)
clamp(number, lower, upper) == Min2(Max2(number, lower), upper)

----------------------------------------------------------------------------
(* Strings *)

\* a missing query parameter: URLSearchParams.get returns null
NULL == <<"null">>

Digits == {"0", "1", "2", "3", "4", "5", "6", "7", "8", "9"}

DigitVal(c) ==
    CASE c = "0" -> 0 [] c = "1" -> 1 [] c = "2" -> 2 [] c = "3" -> 3
      [] c = "4" -> 4 [] c = "5" -> 5 [] c = "6" -> 6 [] c = "7" -> 7
      [] c = "8" -> 8 [] c = "9" -> 9

DigitChar(d) ==
    CASE d = 0 -> "0" [] d = 1 -> "1" [] d = 2 -> "2" [] d = 3 -> "3"
      [] d = 4 -> "4" [] d = 5 -> "5" [] d = 6 -> "6" [] d = 7 -> "7"
      [] d = 8 -> "8" [] d = 9 -> "9"

\* String.prototype.includes
includes(s, c) == \E i \in 1..Len(s) : s[i] = c

\* length of the longest prefix of s[from..] made of digits
RECURSIVE DigitRun(_, _)
DigitRun(s, from) ==
    IF from <= Len(s) /\ s[from] \in Digits
    THEN 1 + DigitRun(s, from + 1)
    ELSE 0

\* value of the digits s[from..from+n-1] read as an integer
RECURSIVE DigitsValue(_, _, _)
DigitsValue(s, from, n) ==
    IF n = 0 THEN 0
    ELSE 10 * DigitsValue(s, from, n - 1) + DigitVal(s[from + n - 1])

\* value, times Scale, of the digits s[from..from+n-1] read as a fraction
RECURSIVE FractionValue(_, _, _)
FractionValue(s, from, n) ==
    IF n = 0 THEN 0
    ELSE FractionValue(s, from, n - 1)
         + DigitVal(s[from + n - 1]) * (Scale \div Pow10(n))

InfinityLiteral == <<"I", "n", "f", "i", "n", "i", "t", "y">>

\* parseFloat of a string without sign, exponent or blanks: the literal
\* Infinity, or the longest prefix digits [ "." digits ] holding at least
\* one digit, else NaN
parseFloat(s) ==
    LET ni == DigitRun(s, 1)
        dot == ni + 1 <= Len(s) /\ s[ni + 1] = "."
        nf == IF dot THEN DigitRun(s, ni + 2) ELSE 0
    IN  IF Len(s) >= 8 /\ SubSeq(s, 1, 8) = InfinityLiteral
        THEN POSITIVE_INFINITY
        ELSE IF ni + nf = 0 THEN NaN
        ELSE DigitsValue(s, 1, ni) * Scale + FractionValue(s, ni + 2, nf)

\* decimal digits of the natural number k
RECURSIVE NatToString(_)
NatToString(k) ==
    IF k < 10 THEN <<DigitChar(k)>>
    ELSE NatToString(k \div 10) \o <<DigitChar(k % 10)>>

\* the n fraction digits of f / 10^n, without trailing zeros
RECURSIVE FractionToString(_, _)
FractionToString(f, n) ==
    IF f = 0 \/ n = 0 THEN <<>>
    ELSE <<DigitChar(f \div Pow10(n - 1))>>
         \o FractionToString(f % Pow10(n - 1), n - 1)

\* Number.prototype.toString of a number >= 0
toString(x) ==
    IF x = POSITIVE_INFINITY THEN InfinityLiteral
    ELSE IF x % Scale = 0 THEN NatToString(x \div Scale)
    ELSE NatToString(x \div Scale) \o <<".">>
         \o FractionToString(x % Scale, FracDigits)

\* index of the first "-" of s at or after from, or Len(s) + 1
RECURSIVE NextDash(_, _)
NextDash(s, from) ==
    IF from > Len(s) \/ s[from] = "-" THEN from ELSE NextDash(s, from + 1)

\* String.prototype.split("-")
RECURSIVE splitFrom(_, _)
splitFrom(s, from) ==
    LET d == NextDash(s, from)
        part == SubSeq(s, from, d - 1)
    IN  IF d > Len(s) THEN <<part>> ELSE <<part>> \o splitFrom(s, d + 1)

split(s) == splitFrom(s, 1)

----------------------------------------------------------------------------
(* ratingsService.ts *)

DEFAULT_RATINGS_MIN == 1 * Scale
DEFAULT_RATINGS_MAX == 10 * Scale
DEFAULT_RANGE == <<DEFAULT_RATINGS_MIN, DEFAULT_RATINGS_MAX>>

\* convertRangeQueryParamToValue with the clamp of the max bound left out
convertRangeMaxUnclamped(value) ==
    IF value = NULL \/ value = <<>> THEN DEFAULT_RANGE
    ELSE
      LET normalizedValue ==
              IF includes(value, "-") THEN value ELSE value \o <<"-">> \o value
          parts == split(normalizedValue)
          parsedMinRange == parseFloat(parts[1])
          minRange == IF isNaN(parsedMinRange) THEN DEFAULT_RATINGS_MIN
                      ELSE clamp(parsedMinRange, DEFAULT_RATINGS_MIN,
                                 DEFAULT_RATINGS_MAX)
          parsedMaxRange == parseFloat(parts[2])
          maxRange == IF isNaN(parsedMaxRange) THEN DEFAULT_RATINGS_MAX
                      ELSE parsedMaxRange
      IN  <<minRange, maxRange>>

convertRangeQueryParamToValue(value) ==
    IF value = NULL \/ value = <<>> THEN DEFAULT_RANGE
    ELSE
      LET normalizedValue ==
              IF includes(value, "-") THEN value ELSE value \o <<"-">> \o value
          parts == split(normalizedValue)
          parsedMinRange == parseFloat(parts[1])
          minRange == IF isNaN(parsedMinRange) THEN DEFAULT_RATINGS_MIN
                      ELSE clamp(parsedMinRange, DEFAULT_RATINGS_MIN,
                                 DEFAULT_RATINGS_MAX)
          parsedMaxRange == parseFloat(parts[2])
          maxRange == IF isNaN(parsedMaxRange) THEN DEFAULT_RATINGS_MAX
                      ELSE clamp(parsedMaxRange, DEFAULT_RATINGS_MIN,
                                 DEFAULT_RATINGS_MAX)
      IN  <<minRange, maxRange>>

\* ratingsService.getInitialState, reading the "ratings" query parameter
ratingsGetInitialState(u) == convertRangeQueryParamToValue(u.ratings)

\* getReducedState that also writes the range under a second key
ratingsGetReducedStateTwoKeys(state, payload) ==
    [state EXCEPT !.ratingsRange = <<payload[1], payload[2]>>,
                  !.complexityRange = <<payload[1], payload[2]>>]

ratingsGetReducedState(state, payload) ==
    LET minRange == payload[1]
        maxRange == payload[2]
        ratingsRange == <<minRange, maxRange>>
    IN  [state EXCEPT !.ratingsRange = ratingsRange]

----------------------------------------------------------------------------
(* slider-utils, booleanQueryParam, playerCountService, playtimeService,   *)
(* complexityService, showRatings, username: modules the reducer imports.  *)
(* They are modelled from their described contract.                        *)

\* slider-utils maybeSetQueryParam: the key is deleted when the value is the
\* default, else set to "n" when min = max and to "n-m" otherwise
rangeQueryParam(value, defaultValue) ==
    IF value = defaultValue THEN NULL
    ELSE IF value[1] = value[2] THEN toString(value[1])
    ELSE toString(value[1]) \o <<"-">> \o toString(value[2])

\* slider-utils: "n" or "n-m"; a part that is not a number falls back to the
\* matching default bound; min is clamped into [lo, hi]; max is clamped into
\* [lo, hi], or is +Infinity above hi when the criterion is open-ended
parseRange(value, lo, hi, defaultValue, openEnded) ==
    IF value = NULL \/ value = <<>> THEN defaultValue
    ELSE
      LET normalizedValue ==
              IF includes(value, "-") THEN value ELSE value \o <<"-">> \o value
          parts == split(normalizedValue)
          parsedMin == parseFloat(parts[1])
          parsedMax == parseFloat(parts[2])
          minRange == IF isNaN(parsedMin) THEN defaultValue[1]
                      ELSE clamp(parsedMin, lo, hi)
          maxRange == IF isNaN(parsedMax) THEN defaultValue[2]
                      ELSE IF openEnded /\ parsedMax > hi
                      THEN POSITIVE_INFINITY
                      ELSE clamp(parsedMax, lo, hi)
      IN  <<minRange, maxRange>>

\* the range-set transition of an imported criterion: re-clamps its payload
clampRange(payload, lo, hi, openEnded) ==
    << clamp(payload[1], lo, hi),
       IF openEnded /\ payload[2] > hi THEN POSITIVE_INFINITY
       ELSE clamp(payload[2], lo, hi) >>

\* slider-utils isBoardGameRangeWithinFilterRange: the two inclusive
\* intervals intersect
isBoardGameRangeWithinFilterRange(gameRange, filterRange) ==
    /\ Leq(gameRange[1], filterRange[2])
    /\ Leq(filterRange[1], gameRange[2])

\* PlayerCountSlider.tsx: the slider's mark 11 stands for "10+"
convertElevenToInfinity(value) ==
    IF value >= 11 * Scale THEN POSITIVE_INFINITY ELSE value

PLAYER_COUNT_MIN == 1 * Scale
PLAYER_COUNT_MAX == 10 * Scale
DEFAULT_PLAYER_COUNT_RANGE == <<PLAYER_COUNT_MIN, POSITIVE_INFINITY>>

playerCountGetInitialState(u) ==
    parseRange(u.playerCount, PLAYER_COUNT_MIN, PLAYER_COUNT_MAX,
               DEFAULT_PLAYER_COUNT_RANGE, TRUE)

playerCountGetReducedState(state, payload) ==
    [state EXCEPT !.playerCountRange =
        clampRange(payload, PLAYER_COUNT_MIN, PLAYER_COUNT_MAX, TRUE)]

playerCountIsWithinRange(state, game) ==
    isBoardGameRangeWithinFilterRange(<<game.minPlayers, game.maxPlayers>>,
                                      state.playerCountRange)

PLAYTIME_MIN == 0
PLAYTIME_MAX == 240 * Scale
DEFAULT_PLAYTIME_RANGE == <<PLAYTIME_MIN, POSITIVE_INFINITY>>

playtimeGetInitialState(u) ==
    parseRange(u.playtime, PLAYTIME_MIN, PLAYTIME_MAX,
               DEFAULT_PLAYTIME_RANGE, TRUE)

playtimeGetReducedState(state, payload) ==
    [state EXCEPT !.playtimeRange =
        clampRange(payload, PLAYTIME_MIN, PLAYTIME_MAX, TRUE)]

playtimeIsWithinRange(state, game) ==
    isBoardGameRangeWithinFilterRange(<<game.minPlaytime, game.maxPlaytime>>,
                                      state.playtimeRange)

COMPLEXITY_MIN == 1 * Scale
COMPLEXITY_MAX == 5 * Scale
DEFAULT_COMPLEXITY_RANGE == <<COMPLEXITY_MIN, COMPLEXITY_MAX>>

complexityGetInitialState(u) ==
    parseRange(u.complexity, COMPLEXITY_MIN, COMPLEXITY_MAX,
               DEFAULT_COMPLEXITY_RANGE, FALSE)

complexityGetReducedState(state, payload) ==
    [state EXCEPT !.complexityRange =
        clampRange(payload, COMPLEXITY_MIN, COMPLEXITY_MAX, FALSE)]

complexityIsWithinRange(state, game) ==
    isBoardGameRangeWithinFilterRange(<<game.averageWeight, game.averageWeight>>,
                                      state.complexityRange)

\* booleanQueryParam: the key is present (value "1") exactly for TRUE
booleanGetInitialState(param) == param = <<"1">>

booleanQueryParamValue(value) == IF value THEN <<"1">> ELSE NULL

booleanGetReducedState(stateKey, state) ==
    [state EXCEPT ![stateKey] = ~state[stateKey]]

\* showRatings: the mode is kept as a tag; AVERAGE_RATING is the default
RatingsModes == {"NO_RATING", "AVERAGE_RATING", "USER_RATING"}

showRatingsGetInitialState(u) ==
    CASE u.showRatings = <<"N">> -> "NO_RATING"
      [] u.showRatings = <<"U">> -> "USER_RATING"
      [] OTHER -> "AVERAGE_RATING"

showRatingsQueryParam(mode) ==
    CASE mode = "NO_RATING" -> <<"N">>
      [] mode = "USER_RATING" -> <<"U">>
      [] OTHER -> NULL

showRatingsGetReducedState(state, payload) ==
    [state EXCEPT !.showRatings = payload]

\* TOGGLE_SHOW_RATINGS: switches the ratings on (average) and off
getToggleShowRatings(state) ==
    [state EXCEPT !.showRatings =
        IF state.showRatings = "NO_RATING" THEN "AVERAGE_RATING"
        ELSE "NO_RATING"]

\* username: the raw "username" query parameter, "" when it is missing
usernameGetInitialState(u) == IF u.username = NULL THEN <<>> ELSE u.username

usernameQueryParam(name) == IF name = <<>> THEN NULL ELSE name

usernameGetReducedState(state, payload) ==
    [state EXCEPT !.username = payload]

----------------------------------------------------------------------------
(* useCollectionFilters.ts: state, actions and reducer *)

\* the query parameters the filter reads and writes
emptyUrl ==
    [username |-> NULL, playerCount |-> NULL, playtime |-> NULL,
     complexity |-> NULL, ratings |-> NULL, showRatings |-> NULL,
     showExpansions |-> NULL, showNotRec |-> NULL, showInvalid |-> NULL,
     debug |-> NULL]

initialFilterState(u) ==
    [username |-> usernameGetInitialState(u),
     showInvalidPlayerCount |-> booleanGetInitialState(u.showInvalid),
     playerCountRange |-> playerCountGetInitialState(u),
     playtimeRange |-> playtimeGetInitialState(u),
     complexityRange |-> complexityGetInitialState(u),
     showExpansions |-> booleanGetInitialState(u.showExpansions),
     showRatings |-> showRatingsGetInitialState(u),
     ratingsRange |-> ratingsGetInitialState(u),
     showNotRecommended |-> booleanGetInitialState(u.showNotRec),
     isDebug |-> booleanGetInitialState(u.debug)]

RangeSetActions ==
    {"SET_COMPLEXITY", "SET_PLAYER_COUNT_RANGE", "SET_PLAYTIME_RANGE",
     "SET_RATINGS"}

ToggleActions ==
    {"TOGGLE_SHOW_EXPANSIONS", "TOGGLE_SHOW_INVALID_PLAYER_COUNT",
     "TOGGLE_SHOW_NOT_RECOMMENDED_PLAYER_COUNT"}

ActionTypes ==
    RangeSetActions \cup ToggleActions
    \cup {"SET_USERNAME", "TOGGLE_SHOW_RATINGS", "SET_SHOW_RATINGS"}

\* the actions map with TOGGLE_SHOW_EXPANSIONS built for the key isDebug
actionsToggleDebug(type, state, payload) ==
    CASE type = "SET_COMPLEXITY" -> complexityGetReducedState(state, payload)
      [] type = "SET_PLAYER_COUNT_RANGE" ->
             playerCountGetReducedState(state, payload)
      [] type = "SET_PLAYTIME_RANGE" -> playtimeGetReducedState(state, payload)
      [] type = "SET_USERNAME" -> usernameGetReducedState(state, payload)
      [] type = "TOGGLE_SHOW_RATINGS" -> getToggleShowRatings(state)
      [] type = "SET_SHOW_RATINGS" -> showRatingsGetReducedState(state, payload)
      [] type = "SET_RATINGS" -> ratingsGetReducedState(state, payload)
      [] type = "TOGGLE_SHOW_EXPANSIONS" ->
             booleanGetReducedState("isDebug", state)
      [] type = "TOGGLE_SHOW_INVALID_PLAYER_COUNT" ->
             booleanGetReducedState("showInvalidPlayerCount", state)
      [] type = "TOGGLE_SHOW_NOT_RECOMMENDED_PLAYER_COUNT" ->
             booleanGetReducedState("showNotRecommended", state)

\* the handler the actions map holds for an action type, applied
actions(type, state, payload) ==
    CASE type = "SET_COMPLEXITY" -> complexityGetReducedState(state, payload)
      [] type = "SET_PLAYER_COUNT_RANGE" ->
             playerCountGetReducedState(state, payload)
      [] type = "SET_PLAYTIME_RANGE" -> playtimeGetReducedState(state, payload)
      [] type = "SET_USERNAME" -> usernameGetReducedState(state, payload)
      [] type = "TOGGLE_SHOW_RATINGS" -> getToggleShowRatings(state)
      [] type = "SET_SHOW_RATINGS" -> showRatingsGetReducedState(state, payload)
      [] type = "SET_RATINGS" -> ratingsGetReducedState(state, payload)
      [] type = "TOGGLE_SHOW_EXPANSIONS" ->
             booleanGetReducedState("showExpansions", state)
      [] type = "TOGGLE_SHOW_INVALID_PLAYER_COUNT" ->
             booleanGetReducedState("showInvalidPlayerCount", state)
      [] type = "TOGGLE_SHOW_NOT_RECOMMENDED_PLAYER_COUNT" ->
             booleanGetReducedState("showNotRecommended", state)

\* the query parameters after every control's setQueryParam ran
setQueryParams(u, state) ==
    [u EXCEPT
       !.username = usernameQueryParam(state.username),
       !.playerCount = rangeQueryParam(state.playerCountRange,
                                       DEFAULT_PLAYER_COUNT_RANGE),
       !.playtime = rangeQueryParam(state.playtimeRange,
                                    DEFAULT_PLAYTIME_RANGE),
       !.complexity = rangeQueryParam(state.complexityRange,
                                      DEFAULT_COMPLEXITY_RANGE),
       !.ratings = rangeQueryParam(state.ratingsRange, DEFAULT_RANGE),
       !.showRatings = showRatingsQueryParam(state.showRatings),
       !.showExpansions = booleanQueryParamValue(state.showExpansions),
       !.showNotRec = booleanQueryParamValue(state.showNotRecommended),
       !.showInvalid = booleanQueryParamValue(state.showInvalidPlayerCount),
       !.debug = booleanQueryParamValue(state.isDebug)]

\* maybeSetQueryParam without its early return on an empty username
maybeSetQueryParamUnguarded(state, u, h) ==
    [url |-> setQueryParams(u, state), historyLen |-> h + 1]

\* maybeSetQueryParam: the location and the history it leaves behind
maybeSetQueryParam(state, u, h) ==
    IF state.username = <<>> THEN [url |-> u, historyLen |-> h]
    ELSE [url |-> setQueryParams(u, state), historyLen |-> h + 1]

\* reducer: the new state with the effect of maybeSetQueryParam
reducer(state, type, payload, u, h) ==
    LET newState == actions(type, state, payload)
        synced == maybeSetQueryParam(newState, u, h)
    IN  [state |-> newState, url |-> synced.url,
         historyLen |-> synced.historyLen]

----------------------------------------------------------------------------
(* The session: the reducer driven by the UI callbacks *)

\* the number x / 10
Tenths(x) == x * (Scale \div 10)

\* values the ratings slider (min 1, max 10, step 0.1) can hand over
RatingsSliderValues ==
    {<<Tenths(10), Tenths(100)>>, <<Tenths(75), Tenths(90)>>,
     <<Tenths(50), Tenths(50)>>}

\* values of the player count slider (min 1, max 11, step 1)
PlayerCountSliderValues ==
    {<<Tenths(10), Tenths(110)>>, <<Tenths(20), Tenths(40)>>,
     <<Tenths(30), Tenths(110)>>}

PlaytimeSliderValues ==
    {<<0, POSITIVE_INFINITY>>, <<Tenths(300), Tenths(600)>>}

ComplexitySliderValues ==
    {<<Tenths(10), Tenths(50)>>, <<Tenths(20), Tenths(35)>>}

\* what sliderSetActions pairs: a set action and its slider's values
SliderValues(setAction) ==
    CASE setAction = "SET_PLAYER_COUNT_RANGE" -> PlayerCountSliderValues
      [] setAction = "SET_PLAYTIME_RANGE" -> PlaytimeSliderValues
      [] setAction = "SET_COMPLEXITY" -> ComplexitySliderValues
      [] setAction = "SET_RATINGS" -> RatingsSliderValues

\* range payloads a caller of filterDispatch can pass beside the sliders'
OtherRangePayloads(setAction) ==
    CASE setAction = "SET_PLAYER_COUNT_RANGE" -> {<<0, Tenths(120)>>}
      [] setAction = "SET_PLAYTIME_RANGE" -> {}
      [] setAction = "SET_COMPLEXITY" -> {<<0, Tenths(60)>>}
      [] setAction = "SET_RATINGS" ->
             {<<0, Tenths(110)>>, <<Tenths(90), Tenths(20)>>}

Usernames == {<<>>, <<"u">>}

\* the payloads filterDispatch can be called with, per action type
Payloads(type) ==
    CASE type \in RangeSetActions ->
             SliderValues(type) \cup OtherRangePayloads(type)
      [] type = "SET_USERNAME" -> Usernames
      [] type = "SET_SHOW_RATINGS" -> RatingsModes
      [] OTHER -> {<<>>}

\* the domain of a range criterion: bounds, and whether max may be +Infinity
Domain(setAction) ==
    CASE setAction = "SET_PLAYER_COUNT_RANGE" ->
             [lo |-> PLAYER_COUNT_MIN, hi |-> 11 * Scale, open |-> TRUE]
      [] setAction = "SET_PLAYTIME_RANGE" ->
             [lo |-> PLAYTIME_MIN, hi |-> PLAYTIME_MAX, open |-> TRUE]
      [] setAction = "SET_COMPLEXITY" ->
             [lo |-> COMPLEXITY_MIN, hi |-> COMPLEXITY_MAX, open |-> FALSE]
      [] setAction = "SET_RATINGS" ->
             [lo |-> DEFAULT_RATINGS_MIN, hi |-> DEFAULT_RATINGS_MAX,
              open |-> FALSE]

InDomain(range, d) ==
    /\ range[1] <= range[2]
    /\ d.lo <= range[1] /\ range[1] <= d.hi
    /\ \/ d.lo <= range[2] /\ range[2] <= d.hi
       \/ d.open /\ range[2] = POSITIVE_INFINITY

\* the query parameters a session can start from
InitialRatingsParams ==
    {NULL, <<"7", "-", "9">>, <<"9", "-", "2">>, <<"f", "o", "o">>,
     <<"7", ".", "5">>}

InitialUrls ==
    {[emptyUrl EXCEPT !.username = n, !.ratings = r, !.debug = d,
                      !.playerCount = p] :
        n \in {NULL, <<"u">>}, r \in InitialRatingsParams,
        d \in {NULL, <<"1">>}, p \in {NULL, <<"2", "-", "4">>}}

NoState == "unset"
NoGames == <<>>

Init ==
    /\ url \in InitialUrls
    /\ filterState = initialFilterState(url)
    /\ loaded = TRUE
    /\ historyLen = 0
    /\ lastEvent = "none"
    /\ lastAction = "none"
    /\ dispatchCount = 0
    /\ payloadsInDomain = TRUE
    /\ games = NoGames
    /\ output = NoGames
    /\ applied = FALSE

\* filterDispatch: one run of the reducer
Dispatch(event, type, payload) ==
    /\ loaded
    /\ dispatchCount < MaxDispatch
    /\ LET r == reducer(filterState, type, payload, url, historyLen)
       IN  /\ filterState' = r.state
           /\ url' = r.url
           /\ historyLen' = r.historyLen
    /\ lastEvent' = event
    /\ lastAction' = type
    /\ dispatchCount' = dispatchCount + 1
    /\ payloadsInDomain' =
          (payloadsInDomain
             /\ (type \in RangeSetActions => InDomain(payload, Domain(type))))
    /\ UNCHANGED <<loaded, games, output, applied>>

\* sliderControls[i].sliderProps.onChangeCommitted
SliderOnChangeCommitted ==
    \E setAction \in RangeSetActions :
      \E value \in SliderValues(setAction) :
        Dispatch("onChangeCommitted", setAction, value)

\* PlayerCountSlider onChange: runs on every change while the thumb is dragged
PlayerCountSliderOnChange ==
    \E value \in PlayerCountSliderValues :
      Dispatch("onChange", "SET_PLAYER_COUNT_RANGE", value)

\* usernameControl.setUsername
SetUsername ==
    \E payload \in Usernames :
      Dispatch("setUsername", "SET_USERNAME", payload)

\* a direct call of the filterDispatch the hook returns
FilterDispatch ==
    \E type \in ActionTypes \ {"SET_USERNAME"} :
      \E payload \in Payloads(type) :
        Dispatch("filterDispatch", type, payload)

Next ==
    \/ SliderOnChangeCommitted
    \/ PlayerCountSliderOnChange
    \/ SetUsername
    \/ FilterDispatch

Spec == Init /\ [][Next]_vars

----------------------------------------------------------------------------
(* Session start on an arbitrary "ratings" query parameter *)

Alphabet == {"0", "1", "7", "9", ".", "-", "f"}

RawStrings == UNION {[1..n -> Alphabet] : n \in 0..MaxLen}

InitDecode ==
    /\ \E raw \in RawStrings \cup {NULL} :
          url = [emptyUrl EXCEPT !.ratings = raw]
    /\ filterState = NoState
    /\ loaded = FALSE
    /\ historyLen = 0
    /\ lastEvent = "none"
    /\ lastAction = "none"
    /\ dispatchCount = 0
    /\ payloadsInDomain = TRUE
    /\ games = NoGames
    /\ output = NoGames
    /\ applied = FALSE

\* evaluation of the module: initialFilterState is computed from the location
Load ==
    /\ ~loaded
    /\ filterState' = initialFilterState(url)
    /\ loaded' = TRUE
    /\ UNCHANGED <<url, historyLen, lastEvent, lastAction, dispatchCount,
                   payloadsInDomain, games, output, applied>>

NextDecode == Load

SpecDecode == InitDecode /\ [][NextDecode]_vars

----------------------------------------------------------------------------
(* Properties of the reducer and of the ratings codec *)

\* a step of the behaviour that is one run of the reducer
IsDispatch == dispatchCount' = dispatchCount + 1

RangeFields ==
    {"playerCountRange", "playtimeRange", "complexityRange", "ratingsRange"}

FieldDomain(f) ==
    CASE f = "playerCountRange" -> Domain("SET_PLAYER_COUNT_RANGE")
      [] f = "playtimeRange" -> Domain("SET_PLAYTIME_RANGE")
      [] f = "complexityRange" -> Domain("SET_COMPLEXITY")
      [] f = "ratingsRange" -> Domain("SET_RATINGS")

\* C1: in the initial state decoded from the location, and after any
\* sequence of dispatches whose range payloads are in-domain with
\* min <= max, every range field has min <= max and both bounds inside its
\* criterion's domain.
C1_RangesWellFormed ==
    (loaded /\ payloadsInDomain) =>
        \A f \in RangeFields : InDomain(filterState[f], FieldDomain(f))

\* C2: a change of the player count slider that is not a commit (its
\* onChange) adds no history entry.
C2_NoHistoryEntryPerChange ==
    [][(IsDispatch /\ lastEvent' = "onChange") => historyLen' = historyLen]_vars

\* C3: whenever the last dispatch returned a state with a username,
\* decoding the location the way session start does yields that state.
C3_StoreRoundTrips ==
    (loaded /\ dispatchCount > 0 /\ filterState.username # <<>>) =>
        initialFilterState(url) = filterState

\* C4: a dispatch whose resulting state has an empty username leaves the
\* location and the history unchanged; the location or the history change
\* only when the resulting state's username is non-empty.
C4_NoSyncWithoutUsername ==
    [][(IsDispatch /\ filterState'.username = <<>>) =>
          (url' = url /\ historyLen' = historyLen)]_vars

\* C4 witness: a toggle dispatched in an unnamed session changed the state
\* and wrote nothing.
C4_Witness ==
    /\ dispatchCount = 1
    /\ lastAction = "TOGGLE_SHOW_EXPANSIONS"
    /\ filterState.username = <<>>
    /\ filterState.showExpansions
    /\ url.showExpansions = NULL
    /\ historyLen = 0

\* the two parts of a raw value holding a "-": what precedes the first "-",
\* and what lies between it and the next "-" (or the end)
FirstDash(raw) ==
    CHOOSE i \in 1..Len(raw) :
        raw[i] = "-" /\ \A j \in 1..(i - 1) : raw[j] # "-"

MinPart(raw) == SubSeq(raw, 1, FirstDash(raw) - 1)

MaxPart(raw) ==
    LET rest == SubSeq(raw, FirstDash(raw) + 1, Len(raw))
    IN  IF includes(rest, "-") THEN SubSeq(rest, 1, FirstDash(rest) - 1)
        ELSE rest

\* the bound a part yields: its own default when it is not numeric, else its
\* number clamped into [1, 10]
BoundOf(part, defaultBound) ==
    IF isNaN(parseFloat(part)) THEN defaultBound
    ELSE IF parseFloat(part) < 1 * Scale THEN 1 * Scale
    ELSE IF parseFloat(part) > 10 * Scale THEN 10 * Scale
    ELSE parseFloat(part)

\* C8: decoding the ratings parameter always yields a pair of numbers: the
\* default [1, 10] for a missing or empty value or one with no numeric part;
\* for "n-m" each part's number clamped into [1, 10] or, for a part that is
\* not numeric, that bound's default; for a single number n, [n, n] clamped.
C8_DecodeNeverFails ==
    (loaded /\ dispatchCount = 0) =>
        LET raw == url.ratings
            r == filterState.ratingsRange
        IN  /\ Len(r) = 2
            /\ \A i \in 1..2 : r[i] \in Int /\ ~isNaN(r[i])
            /\ (raw = NULL \/ raw = <<>>) => r = <<1 * Scale, 10 * Scale>>
            /\ (raw # NULL /\ raw # <<>>) =>
                 IF includes(raw, "-")
                 THEN r = <<BoundOf(MinPart(raw), 1 * Scale),
                            BoundOf(MaxPart(raw), 10 * Scale)>>
                 ELSE IF isNaN(parseFloat(raw))
                 THEN r = <<1 * Scale, 10 * Scale>>
                 ELSE r = <<BoundOf(raw, 1 * Scale), BoundOf(raw, 1 * Scale)>>

\* C8 witness: "f-17" was decoded: the min falls back to 1, the max 17 is
\* clamped to 10.
C8_Witness ==
    /\ loaded
    /\ url.ratings = <<"f", "-", "1", "7">>
    /\ filterState.ratingsRange = <<1 * Scale, 10 * Scale>>

\* C9: the state returned by dispatching SET_RATINGS has both bounds of
\* ratingsRange within [1, 10], whatever the payload.
C9_SetRatingsReClamps ==
    lastAction = "SET_RATINGS" =>
        \A i \in 1..2 :
            /\ 1 * Scale <= filterState.ratingsRange[i]
            /\ filterState.ratingsRange[i] <= 10 * Scale

\* the FilterState field an action type names
FieldOf(type) ==
    CASE type = "SET_COMPLEXITY" -> "complexityRange"
      [] type = "SET_PLAYER_COUNT_RANGE" -> "playerCountRange"
      [] type = "SET_PLAYTIME_RANGE" -> "playtimeRange"
      [] type = "SET_RATINGS" -> "ratingsRange"
      [] type = "TOGGLE_SHOW_EXPANSIONS" -> "showExpansions"
      [] type = "TOGGLE_SHOW_INVALID_PLAYER_COUNT" -> "showInvalidPlayerCount"
      [] type = "TOGGLE_SHOW_NOT_RECOMMENDED_PLAYER_COUNT" ->
             "showNotRecommended"

\* C10: a dispatched range-set or toggle action changes at most the one
\* field it names; a toggle flips its boolean.
C10_OnlyNamedFieldChanges ==
    [][(IsDispatch /\ lastAction' \in RangeSetActions \cup ToggleActions) =>
          /\ \A f \in DOMAIN filterState :
                f # FieldOf(lastAction') => filterState'[f] = filterState[f]
          /\ lastAction' \in ToggleActions =>
                filterState'[FieldOf(lastAction')]
                    = ~filterState[FieldOf(lastAction')]]_vars

\* C10 witness: SET_RATINGS replaced the range decoded at session start.
C10_Witness ==
    /\ dispatchCount = 1
    /\ lastAction = "SET_RATINGS"
    /\ filterState.username = <<>>
    /\ filterState.ratingsRange = <<Tenths(75), Tenths(90)>>
    /\ ratingsGetInitialState(url) = <<7 * Scale, 9 * Scale>>
    /\ filterState.isDebug

----------------------------------------------------------------------------
(* useCollectionFilters.ts: the filter and sort pipeline *)

\* a rating that is not a number: userRating "N/A"
N_A == -2000000000

\* typeof x === "number"
isNumber(x) == x # N_A

\* isWithinRange without the fallback for a rating that is not a number
ratingsIsWithinRangeNoFallback(state, game) ==
    LET userOrAverageRating ==
            IF state.showRatings = "USER_RATING" THEN game.userRating
            ELSE game.averageRating
        rating == IF isNumber(userOrAverageRating) THEN userOrAverageRating
                  ELSE NaN
    IN  isBoardGameRangeWithinFilterRange(<<rating, rating>>,
                                          state.ratingsRange)

\* ratingsService.isWithinRange
ratingsIsWithinRange(state, game) ==
    LET userOrAverageRating ==
            IF state.showRatings = "USER_RATING" THEN game.userRating
            ELSE game.averageRating
        rating == IF isNumber(userOrAverageRating) THEN userOrAverageRating
                  ELSE DEFAULT_RATINGS_MIN
    IN  isBoardGameRangeWithinFilterRange(<<rating, rating>>,
                                          state.ratingsRange)

\* Array.prototype.map
RECURSIVE map(_, _)
map(f(_), xs) ==
    IF xs = <<>> THEN <<>> ELSE <<f(Head(xs))>> \o map(f, Tail(xs))

maybeShowExpansions(state, game) ==
    IF state.showExpansions THEN TRUE ELSE game.type = "boardgame"

removeRecsLessThan(minPlayers, rec) == Leq(minPlayers, rec.playerCountValue)

removeRecsMoreThan(maxPlayers, rec) == Leq(rec.playerCountValue, maxPlayers)

\* maybeShowInvalidPlayerCount without the removeRecsMoreThan filter
maybeShowInvalidPlayerCountNoMax(state, game) ==
    IF state.showInvalidPlayerCount THEN game
    ELSE [game EXCEPT !.recommendedPlayerCount =
            SelectSeq(game.recommendedPlayerCount,
                      LAMBDA rec : removeRecsLessThan(game.minPlayers, rec))]

maybeShowInvalidPlayerCount(state, game) ==
    IF state.showInvalidPlayerCount THEN game
    ELSE [game EXCEPT !.recommendedPlayerCount =
            SelectSeq(
              SelectSeq(game.recommendedPlayerCount,
                        LAMBDA rec : removeRecsLessThan(game.minPlayers, rec)),
              LAMBDA rec : removeRecsMoreThan(game.maxPlayers, rec))]

\* the annotated poll entry: rec with isPlayerCountWithinRange added
annotateRec(rec, minFilterCount, maxFilterCount) ==
    [playerCountValue |-> rec.playerCountValue,
     sortScore |-> rec.sortScore,
     NotRecommendedPercent |-> rec.NotRecommendedPercent,
     isPlayerCountWithinRange |->
        (Leq(minFilterCount, rec.playerCountValue)
           /\ Leq(rec.playerCountValue, maxFilterCount))]

addIsPlayerCountWithinRange(state, game) ==
    LET minFilterCount == state.playerCountRange[1]
        maxFilterCount == state.playerCountRange[2]
    IN  [game EXCEPT !.recommendedPlayerCount =
            map(LAMBDA rec : annotateRec(rec, minFilterCount, maxFilterCount),
                game.recommendedPlayerCount)]

\* maybeShowNotRecommended keeping a game only when every in-range entry is
\* recommended
maybeShowNotRecommendedEvery(state, game) ==
    IF state.showNotRecommended \/ state.showInvalidPlayerCount THEN TRUE
    ELSE Len(SelectSeq(game.recommendedPlayerCount,
             LAMBDA rec :
                rec.isPlayerCountWithinRange
                /\ ~(Leq(rec.NotRecommendedPercent, 50 * Scale)
                     \/ isNaN(rec.NotRecommendedPercent)))) = 0

\* maybeShowNotRecommended without the test for missing poll data
maybeShowNotRecommendedNoNaN(state, game) ==
    IF state.showNotRecommended \/ state.showInvalidPlayerCount THEN TRUE
    ELSE Len(SelectSeq(game.recommendedPlayerCount,
             LAMBDA rec :
                rec.isPlayerCountWithinRange
                /\ Leq(rec.NotRecommendedPercent, 50 * Scale))) > 0

maybeShowNotRecommended(state, game) ==
    IF state.showNotRecommended \/ state.showInvalidPlayerCount THEN TRUE
    ELSE Len(SelectSeq(game.recommendedPlayerCount,
             LAMBDA rec :
                rec.isPlayerCountWithinRange
                /\ (Leq(rec.NotRecommendedPercent, 50 * Scale)
                    \/ isNaN(rec.NotRecommendedPercent)))) > 0

\* Array.prototype.reduce((prev, curr) => curr.sortScore + prev, 0)
RECURSIVE reduceSortScore(_, _)
reduceSortScore(recs, prev) ==
    IF recs = <<>> THEN prev
    ELSE reduceSortScore(Tail(recs), Head(recs).sortScore + prev)

calcSortScoreSum(game, minRange, maxRange) ==
    reduceSortScore(
        SelectSeq(game.recommendedPlayerCount,
                  LAMBDA g : Leq(minRange, g.playerCountValue)
                             /\ Leq(g.playerCountValue, maxRange)),
        0)

\* the names of the catalogue in their collation order
NameRank(name) ==
    CASE name = "Azul" -> 1 [] name = "Brass" -> 2 [] name = "Catan" -> 3

\* String.prototype.localeCompare
localeCompare(a, b) ==
    IF NameRank(a) < NameRank(b) THEN -1
    ELSE IF NameRank(a) > NameRank(b) THEN 1 ELSE 0

\* maybeSortByScore with the two sums subtracted the other way round
maybeSortByScoreAscending(state, gameA, gameB) ==
    LET minRange == state.playerCountRange[1]
        maxRange == state.playerCountRange[2]
    IN  IF minRange # 1 * Scale \/ maxRange # POSITIVE_INFINITY
        THEN calcSortScoreSum(gameA, minRange, maxRange)
             - calcSortScoreSum(gameB, minRange, maxRange)
        ELSE localeCompare(gameA.name, gameB.name)

maybeSortByScore(state, gameA, gameB) ==
    LET minRange == state.playerCountRange[1]
        maxRange == state.playerCountRange[2]
    IN  IF minRange # 1 * Scale \/ maxRange # POSITIVE_INFINITY
        THEN calcSortScoreSum(gameB, minRange, maxRange)
             - calcSortScoreSum(gameA, minRange, maxRange)
        ELSE localeCompare(gameA.name, gameB.name)

\* Array.prototype.sort with the comparator maybeSortByScore(state): a
\* stable sort, here by insertion
RECURSIVE insertSorted(_, _, _)
insertSorted(state, sorted, game) ==
    IF sorted = <<>> THEN <<game>>
    ELSE LET last == sorted[Len(sorted)]
         IN  IF maybeSortByScore(state, last, game) > 0
             THEN insertSorted(state, SubSeq(sorted, 1, Len(sorted) - 1), game)
                  \o <<last>>
             ELSE sorted \o <<game>>

RECURSIVE sort(_, _)
sort(state, gs) ==
    IF gs = <<>> THEN <<>>
    ELSE insertSorted(state, sort(state, SubSeq(gs, 1, Len(gs) - 1)),
                      gs[Len(gs)])

\* applyFiltersAndSorts up to the ratings filter.  The maybeOutputList taps
\* between the stages return their argument and are left out.
criterionFiltered(state, gs) ==
    LET shown == SelectSeq(gs, LAMBDA g : maybeShowExpansions(state, g))
        valid == map(LAMBDA g : maybeShowInvalidPlayerCount(state, g), shown)
        byPlayerCount ==
            SelectSeq(valid, LAMBDA g : playerCountIsWithinRange(state, g))
        byPlaytime ==
            SelectSeq(byPlayerCount, LAMBDA g : playtimeIsWithinRange(state, g))
        byComplexity ==
            SelectSeq(byPlaytime, LAMBDA g : complexityIsWithinRange(state, g))
    IN  SelectSeq(byComplexity, LAMBDA g : ratingsIsWithinRange(state, g))

applyFiltersAndSorts(state, gs) ==
    LET annotated ==
            map(LAMBDA g : addIsPlayerCountWithinRange(state, g),
                criterionFiltered(state, gs))
        recommended ==
            SelectSeq(annotated, LAMBDA g : maybeShowNotRecommended(state, g))
    IN  sort(state, recommended)

----------------------------------------------------------------------------
(* The pipeline applied to a collection under a filter state *)

\* a poll entry of recommendedPlayerCount
Rec(playerCountValue, sortScore, notRecommendedPercent) ==
    [playerCountValue |-> playerCountValue * Scale,
     sortScore |-> sortScore * Scale,
     NotRecommendedPercent |->
        IF isNaN(notRecommendedPercent) THEN NaN
        ELSE notRecommendedPercent * Scale]

\* the rating, weight and playtime profiles of the catalogue
Profiles ==
    { [type |-> "boardgame", userRating |-> N_A,
       averageRating |-> Tenths(65), averageWeight |-> Tenths(25),
       minPlaytime |-> 30 * Scale, maxPlaytime |-> 60 * Scale],
      [type |-> "boardgameexpansion", userRating |-> 8 * Scale,
       averageRating |-> Tenths(75), averageWeight |-> Tenths(40),
       minPlaytime |-> 90 * Scale, maxPlaytime |-> 120 * Scale],
      [type |-> "boardgame", userRating |-> 8 * Scale,
       averageRating |-> Tenths(95), averageWeight |-> Tenths(10),
       minPlaytime |-> 10 * Scale, maxPlaytime |-> 20 * Scale],
      [type |-> "boardgame", userRating |-> 3 * Scale,
       averageRating |-> 8 * Scale, averageWeight |-> 3 * Scale,
       minPlaytime |-> 45 * Scale, maxPlaytime |-> 45 * Scale] }

Game(id, name, profile, minPlayers, maxPlayers, recs) ==
    [id |-> id, name |-> name, type |-> profile.type,
     minPlayers |-> minPlayers * Scale, maxPlayers |-> maxPlayers * Scale,
     userRating |-> profile.userRating,
     averageRating |-> profile.averageRating,
     averageWeight |-> profile.averageWeight,
     minPlaytime |-> profile.minPlaytime,
     maxPlaytime |-> profile.maxPlaytime,
     recommendedPlayerCount |-> recs]

\* games for 2 to 3 players polled for 1, 2, 3 and "3+" (= 4) players
SingleGames ==
    { Game(0, "Brass", p, 2, 3,
           <<Rec(1, 1, n1), Rec(2, 5, n2), Rec(3, 2, n3), Rec(4, 0 - 3, n4)>>) :
        p \in Profiles, n1 \in {80}, n2 \in {NaN, 50, 51},
        n3 \in {NaN, 50, 51}, n4 \in {10, 80} }

\* games nobody has voted on: the poll list is empty
UnpolledGames == { Game(0, "Brass", p, 2, 3, <<>>) : p \in Profiles }

BaseProfile ==
    [type |-> "boardgame", userRating |-> 7 * Scale,
     averageRating |-> 7 * Scale, averageWeight |-> 2 * Scale,
     minPlaytime |-> 30 * Scale, maxPlaytime |-> 60 * Scale]

\* a small catalogue of games that differ in name and in poll scores
Catalogue ==
    { Game(1, "Catan", BaseProfile, 3, 4,
           <<Rec(3, 4, 20), Rec(4, 9, 10), Rec(5, 0 - 6, 90)>>),
      Game(2, "Azul", BaseProfile, 2, 4,
           <<Rec(2, 7, 30), Rec(3, 1, 60), Rec(4, 2, NaN)>>),
      Game(3, "Brass", BaseProfile, 2, 4,
           <<Rec(2, 0 - 2, 70), Rec(3, 6, 40), Rec(4, 8, 5)>>),
      Game(4, "Azul", BaseProfile, 1, 2,
           <<Rec(1, 3, 50), Rec(2, 3, 51)>>) }

\* the collections: every single game, and the lists of at most MaxGames
\* different games of the catalogue
Collections ==
    { <<g>> : g \in SingleGames \cup UnpolledGames }
    \cup UNION { { gs \in [1..n -> Catalogue] :
                     \A i, j \in 1..n : i # j => gs[i].id # gs[j].id } :
                 n \in 0..MaxGames }

PipelinePlayerCountRanges ==
    { <<1 * Scale, POSITIVE_INFINITY>>, <<3 * Scale, 3 * Scale>>,
      <<2 * Scale, 4 * Scale>>, <<3 * Scale, POSITIVE_INFINITY>>,
      <<1 * Scale, 2 * Scale>>, <<4 * Scale, 10 * Scale>> }

PipelinePlaytimeRanges ==
    { DEFAULT_PLAYTIME_RANGE, <<30 * Scale, 60 * Scale>> }

PipelineComplexityRanges ==
    { DEFAULT_COMPLEXITY_RANGE, <<2 * Scale, Tenths(35)>> }

PipelineRatingsRanges ==
    { DEFAULT_RANGE, <<7 * Scale, 9 * Scale>>, <<1 * Scale, 5 * Scale>> }

\* filter states the reducer can produce, under which the pipeline is run
PipelineFilterStates ==
    { [initialFilterState(emptyUrl) EXCEPT
          !.playerCountRange = pc, !.playtimeRange = pt,
          !.complexityRange = cx, !.ratingsRange = rt, !.showRatings = sr,
          !.showExpansions = se, !.showNotRecommended = sn,
          !.showInvalidPlayerCount = si] :
        pc \in PipelinePlayerCountRanges, pt \in PipelinePlaytimeRanges,
        cx \in PipelineComplexityRanges, rt \in PipelineRatingsRanges,
        sr \in RatingsModes, se \in BOOLEAN, sn \in BOOLEAN, si \in BOOLEAN }

InitPipeline ==
    /\ filterState \in PipelineFilterStates
    /\ games \in Collections
    /\ output = NoGames
    /\ applied = FALSE
    /\ url = emptyUrl
    /\ loaded = TRUE
    /\ historyLen = 0
    /\ lastEvent = "none"
    /\ lastAction = "none"
    /\ dispatchCount = 0
    /\ payloadsInDomain = TRUE

\* a render: the list shown is applyFiltersAndSorts(filterState)(games)
Render ==
    /\ ~applied
    /\ output' = applyFiltersAndSorts(filterState, games)
    /\ applied' = TRUE
    /\ UNCHANGED <<filterState, url, loaded, historyLen, lastEvent,
                   lastAction, dispatchCount, payloadsInDomain, games>>

NextPipeline == Render

SpecPipeline == InitPipeline /\ [][NextPipeline]_vars

----------------------------------------------------------------------------
(* Properties of the pipeline *)

\* the ids of the games of a list
Ids(gs) == { gs[i].id : i \in 1..Len(gs) }

\* range a contains range b
Contains(a, b) == a[1] <= b[1] /\ b[2] <= a[2]

\* the ranges a criterion is widened to
WiderRanges(f) ==
    CASE f = "playerCountRange" ->
             { <<a * Scale, b>> :
                 a \in 1..4,
                 b \in {2 * Scale, 3 * Scale, 4 * Scale, 10 * Scale,
                        POSITIVE_INFINITY} }
      [] f = "playtimeRange" ->
             PipelinePlaytimeRanges
             \cup { <<0, 60 * Scale>>, <<20 * Scale, 90 * Scale>> }
      [] f = "complexityRange" ->
             PipelineComplexityRanges
             \cup { <<1 * Scale, Tenths(35)>>, <<2 * Scale, 5 * Scale>> }
      [] f = "ratingsRange" ->
             PipelineRatingsRanges
             \cup { <<1 * Scale, 9 * Scale>>, <<Tenths(65), 10 * Scale>> }

\* C5: widening one criterion range, all else equal, never removes a game
\* from the pipeline's output, the not-recommended filter included.
C5_WideningKeepsGames ==
    applied =>
        \A f \in RangeFields :
            \A w \in WiderRanges(f) :
                Contains(w, filterState[f]) =>
                    Ids(output) \subseteq
                        Ids(applyFiltersAndSorts([filterState EXCEPT ![f] = w],
                                                 games))

\* C5 witness: with neither flag set, a game that passes every criterion
\* filter is dropped as not recommended under the active player count range
\* and shown under a wider one.
C5_Witness ==
    /\ applied
    /\ ~filterState.showNotRecommended
    /\ ~filterState.showInvalidPlayerCount
    /\ \E w \in WiderRanges("playerCountRange") :
          /\ Contains(w, filterState.playerCountRange)
          /\ \E id \in Ids(criterionFiltered(filterState, games)) :
                /\ id \notin Ids(output)
                /\ id \in Ids(applyFiltersAndSorts(
                               [filterState EXCEPT !.playerCountRange = w],
                               games))

\* poll entry rec lies in the active player count range
InActiveRange(rec) ==
    /\ filterState.playerCountRange[1] <= rec.playerCountValue
    /\ rec.playerCountValue <= filterState.playerCountRange[2]

\* poll entry rec does not say "not recommended"
NotNotRecommended(rec) ==
    \/ rec.NotRecommendedPercent = NaN
    \/ rec.NotRecommendedPercent # NaN
       /\ rec.NotRecommendedPercent <= 50 * Scale

\* C6: with neither showNotRecommended nor showInvalidPlayerCount set, the
\* output holds exactly the games that passed the criterion filters and
\* have a poll entry inside the active player count range whose
\* notRecommendedPercent is <= 50 or NaN; with either flag set it holds
\* every game that passed the criterion filters.
C6_NotRecommendedFilter ==
    applied =>
        LET passed == criterionFiltered(filterState, games)
            kept == { i \in 1..Len(passed) :
                        \E k \in 1..Len(passed[i].recommendedPlayerCount) :
                            /\ InActiveRange(passed[i].recommendedPlayerCount[k])
                            /\ NotNotRecommended(
                                   passed[i].recommendedPlayerCount[k]) }
        IN  /\ Len(output) = Cardinality(Ids(output))
            /\ IF filterState.showNotRecommended
                    \/ filterState.showInvalidPlayerCount
               THEN Ids(output) = Ids(passed)
               ELSE Ids(output) = { passed[i].id : i \in kept }

\* C6 witness: with neither flag set, a shown game has poll entries in the
\* active range, all of them with notRecommendedPercent NaN.
C6_Witness ==
    /\ applied
    /\ ~filterState.showNotRecommended
    /\ ~filterState.showInvalidPlayerCount
    /\ \E i \in 1..Len(output) :
          /\ \E k \in 1..Len(output[i].recommendedPlayerCount) :
                InActiveRange(output[i].recommendedPlayerCount[k])
          /\ \A k \in 1..Len(output[i].recommendedPlayerCount) :
                InActiveRange(output[i].recommendedPlayerCount[k]) =>
                    output[i].recommendedPlayerCount[k].NotRecommendedPercent
                        = NaN

\* the sum of sortScore over the poll entries recs[1..n] in the active range
RECURSIVE ScoreOfFirst(_, _)
ScoreOfFirst(recs, n) ==
    IF n = 0 THEN 0
    ELSE ScoreOfFirst(recs, n - 1)
         + (IF InActiveRange(recs[n]) THEN recs[n].sortScore ELSE 0)

ScoreInActiveRange(game) ==
    ScoreOfFirst(game.recommendedPlayerCount, Len(game.recommendedPlayerCount))

\* C7: under the range exactly [1, +Infinity] the output is in ascending
\* name order; under any other range the in-range sortScore sum of each
\* output game is >= that of the game after it.
C7_OutputOrdered ==
    applied =>
        \A i \in 1..(Len(output) - 1) :
            IF filterState.playerCountRange = <<1 * Scale, POSITIVE_INFINITY>>
            THEN NameRank(output[i].name) <= NameRank(output[i + 1].name)
            ELSE ScoreInActiveRange(output[i])
                     >= ScoreInActiveRange(output[i + 1])

\* C7 witness: under a non-default range two games are shown in the order
\* of their scores, the reverse of their order in the collection.
C7_Witness ==
    /\ applied
    /\ filterState.playerCountRange # <<1 * Scale, POSITIVE_INFINITY>>
    /\ Len(output) = 2
    /\ Len(games) = 2
    /\ output[1].id = games[2].id
    /\ ScoreInActiveRange(output[1]) > ScoreInActiveRange(output[2])

\* the rating the ratings filter looks at: userRating in the USER_RATING
\* mode, averageRating in every other mode; 1 when it is not a number
SelectedRating(game) ==
    LET r == IF filterState.showRatings = "USER_RATING" THEN game.userRating
             ELSE game.averageRating
    IN  IF r = N_A THEN 1 * Scale ELSE r

RatingInRange(game) ==
    /\ filterState.ratingsRange[1] <= SelectedRating(game)
    /\ SelectedRating(game) <= filterState.ratingsRange[2]

\* a ratings range no number falls outside of
AnyRating == <<0, POSITIVE_INFINITY>>

\* filterState with the ratings filter made to admit every game of the
\* catalogue: the average rating, always a number, against AnyRating
RatingsFilterOpen ==
    [filterState EXCEPT !.ratingsRange = AnyRating,
                        !.showRatings = "AVERAGE_RATING"]

\* C11: the ratings filter keeps a game if and only if its selected rating
\* lies in the inclusive ratingsRange: the output holds exactly the games
\* the pipeline shows when the ratings filter admits every game and whose
\* selected rating (userRating in the USER_RATING mode, averageRating
\* otherwise, 1 when not a number) is inside ratingsRange.
C11_RatingsFilter ==
    applied =>
        LET unrated == applyFiltersAndSorts(RatingsFilterOpen, games)
        IN  Ids(output) = { unrated[i].id :
                              i \in { j \in 1..Len(unrated) :
                                        RatingInRange(unrated[j]) } }

\* C11 witness: in the USER_RATING mode a game without a user rating is
\* shown under the range [1, 5], which its average rating 6.5 is outside of.
C11_Witness ==
    /\ applied
    /\ filterState.showRatings = "USER_RATING"
    /\ filterState.ratingsRange = <<1 * Scale, 5 * Scale>>
    /\ \E i \in 1..Len(output) :
          /\ output[i].userRating = N_A
          /\ output[i].averageRating > 5 * Scale

\* C12: no dispatched action changes isDebug, so in every state reached by
\* dispatches isDebug is the value decoded from the "debug" query parameter
\* at session start (which a sync writes back unchanged).
C12_IsDebugNeverChanges ==
    [][IsDispatch =>
          /\ filterState'.isDebug = filterState.isDebug
          /\ booleanGetInitialState(url'.debug)
                 = booleanGetInitialState(url.debug)]_vars

\* C12 witness: in a named session started with debug set, a toggle was
\* dispatched after another action, and isDebug is still set.
C12_Witness ==
    /\ dispatchCount >= 2
    /\ lastAction \in ToggleActions
    /\ filterState.username # <<>>
    /\ filterState.isDebug
    /\ url.debug = <<"1">>
    /\ historyLen >= 2

\* poll entry rec of game lies in the game's own [minPlayers, maxPlayers]
InOwnRange(game, rec) ==
    /\ game.minPlayers <= rec.playerCountValue
    /\ rec.playerCountValue <= game.maxPlayers

\* C13: with showNotRecommended and showInvalidPlayerCount both false, every
\* output game has a poll entry with isPlayerCountWithinRange = TRUE, every
\* poll entry of every output game lies in the game's own player range, and
\* a game of the collection with no poll entry inside both the active range
\* and its own player range (an empty poll list included) is not shown.
C13_ShownGamesHaveValidEntries ==
    (applied /\ ~filterState.showNotRecommended
             /\ ~filterState.showInvalidPlayerCount) =>
        /\ \A i \in 1..Len(output) :
              /\ \E k \in 1..Len(output[i].recommendedPlayerCount) :
                    output[i].recommendedPlayerCount[k].isPlayerCountWithinRange
              /\ \A k \in 1..Len(output[i].recommendedPlayerCount) :
                    InOwnRange(output[i], output[i].recommendedPlayerCount[k])
        /\ \A i \in 1..Len(games) :
              (\A k \in 1..Len(games[i].recommendedPlayerCount) :
                   ~(InActiveRange(games[i].recommendedPlayerCount[k])
                     /\ InOwnRange(games[i],
                                   games[i].recommendedPlayerCount[k])))
                  => games[i].id \notin Ids(output)

\* C13 witness: with both flags false a game is shown whose poll entries
\* outside its own player range were removed, one of them inside the active
\* range with a notRecommendedPercent <= 50.
C13_Witness ==
    /\ applied
    /\ ~filterState.showNotRecommended
    /\ ~filterState.showInvalidPlayerCount
    /\ \E i \in 1..Len(output) : \E j \in 1..Len(games) :
          /\ games[j].id = output[i].id
          /\ Len(output[i].recommendedPlayerCount)
                 < Len(games[j].recommendedPlayerCount)
          /\ \E k \in 1..Len(games[j].recommendedPlayerCount) :
                /\ ~InOwnRange(games[j], games[j].recommendedPlayerCount[k])
                /\ InActiveRange(games[j].recommendedPlayerCount[k])
                /\ NotNotRecommended(games[j].recommendedPlayerCount[k])

====
